---- MODULE Spec2Model ----
(***************************************************************************)
(* git-log-doc: the unified-diff pipeline of one changed file.             *)
(*   CommitProcessor._process_diff        extraction + truncation          *)
(*   HTMLDiffRenderer._prepare_side_by_side_diff / _render_file_diff       *)
(*   DiffVisualizer._prepare_side_by_side_diff / _create_diff_image        *)
(* Text is a sequence of one-character strings; Python indices are kept    *)
(* 0-based in the index variables (record i of a list is list[i + 1]).     *)
(***************************************************************************)
EXTENDS Integers, Sequences, FiniteSets, TLC

VARIABLES
    pc,              \* position in the pipeline
    diff,            \* diff.diff: the raw bytes of one file's diff
    line_changes,    \* _process_diff's local list before truncation
    file_info,       \* the dict _process_diff returns
    i,               \* _prepare_side_by_side_diff's loop index
    left_lines,      \* aligner output, old side
    right_lines,     \* aligner output, new side
    row,             \* the render loop's index
    left_line_num,   \* the renderer's old-file line counter
    right_line_num,  \* the renderer's new-file line counter
    out,             \* what the renderer has emitted, one entry per row
    y_position,      \* the visualizer's drawing cursor (1/4000 of the axis)
    total_diff_lines,\* the visualizer's sizing total
    cli_pc,          \* position in cli.main
    commit_list,     \* main's list of commits
    verbose,         \* the --verbose flag
    idx,             \* the commit loop's index
    processed_commits, \* main's list of processed commits
    documents,       \* the calls of generate_document, by their argument
    commit_pc,       \* position in CommitProcessor.process_commit
    diffs,           \* the diffs of the commit being processed
    max_files,       \* CommitProcessor.max_files
    diff_idx,        \* the position of process_commit's loop in diffs
    commit_info,     \* the dict process_commit builds
    processed_files  \* process_commit's counter

cliVars == <<cli_pc, commit_list, verbose, idx, processed_commits, documents>>

commitVars ==
    <<commit_pc, diffs, max_files, diff_idx, commit_info, processed_files>>

fileVars ==
    <<pc, diff, line_changes, file_info, i, left_lines, right_lines, row,
      left_line_num, right_line_num, out, y_position, total_diff_lines>>

vars == <<fileVars, cliVars, commitVars>>

(* ------------------------------ bounds --------------------------------- *)

\* longest record sequence handed directly to the aligner
MaxLen == 4
\* longest short raw diff, in lines
MaxShort == 3
\* raw diffs of Threshold - Margin .. Threshold + Margin lines are drawn
Margin == 2
\* longest period of the line pattern a raw diff repeats
MaxPeriod == 2
\* longest record sequence of the specification with fairness
MaxTypedLen == 2
\* longest commit list handed to main's loop
MaxCommits == 3
\* most diffs of a commit handed to process_commit
MaxDiffs == 3
\* largest max_files
MaxFilesLimit == 2

(* --------------------------- program constants ------------------------- *)

Threshold == 100
HeadLen == 50
TailLen == 50
MaxDrawnLines == 50

\* y coordinates of _create_diff_image, in units of 1/4000 of the axis
YStart == 3920
LineHeight == 100
YRowLimit == 80

(* ------------------------------- text ---------------------------------- *)

DigitChars == <<"0", "1", "2", "3", "4", "5", "6", "7", "8", "9">>

IsDigit(c) == \E k \in 1..10 : DigitChars[k] = c

DigitValue(c) == (CHOOSE k \in 1..10 : DigitChars[k] = c) - 1

\* str(n) for n >= 0
RECURSIVE IntToStr(_)
IntToStr(n) ==
    IF n < 10 THEN <<DigitChars[n + 1]>>
    ELSE IntToStr(n \div 10) \o <<DigitChars[(n % 10) + 1]>>

\* int(s) for a non-empty string of digits
RECURSIVE StrToInt(_)
StrToInt(s) ==
    IF Len(s) = 1 THEN DigitValue(s[1])
    ELSE 10 * StrToInt(SubSeq(s, 1, Len(s) - 1)) + DigitValue(s[Len(s)])

\* line.startswith(prefix)
StartsWith(line, prefix) ==
    /\ Len(line) >= Len(prefix)
    /\ SubSeq(line, 1, Len(prefix)) = prefix

\* a byte that is no valid UTF-8 sequence
BadByte == "xFF"

\* U+FFFD, the character errors='replace' would substitute
ReplacementChar == "uFFFD"

\* bytes.decode('utf-8', errors='replace')
DecodeReplace(bytes) ==
    [k \in 1..Len(bytes) |->
        IF bytes[k] = BadByte THEN ReplacementChar ELSE bytes[k]]

\* bytes.decode('utf-8', errors='ignore')
Decode(bytes) == SelectSeq(bytes, LAMBDA b : b # BadByte)

\* str.split('\n') of s[lo..hi], by halves: the pieces of the two halves,
\* the last piece of the first half continuing in the first of the second
RECURSIVE SplitRange(_, _, _)
SplitRange(s, lo, hi) ==
    IF lo > hi THEN << <<>> >>
    ELSE IF lo = hi
    THEN (IF s[lo] = "\n" THEN << <<>>, <<>> >> ELSE << <<s[lo]>> >>)
    ELSE LET mid == (lo + hi) \div 2
             a == SplitRange(s, lo, mid)
             b == SplitRange(s, mid + 1, hi)
         IN  SubSeq(a, 1, Len(a) - 1) \o <<a[Len(a)] \o b[1]>> \o Tail(b)

Split(s) == SplitRange(s, 1, Len(s))

(* --------------------------- _process_diff ----------------------------- *)

\* EmptyInfo holding a placeholder record for the file
EmptyInfoWithPlaceholder ==
    [insertions |-> 0, deletions |-> 0,
     diff_content |-> <<[type |-> "context", content |-> <<>>]>>]

EmptyInfo == [insertions |-> 0, deletions |-> 0, diff_content |-> <<>>]

\* line.startswith('+') and not line.startswith('+++')
IsAddLine(line) ==
    StartsWith(line, <<"+">>) /\ ~StartsWith(line, <<"+", "+", "+">>)

\* elif line.startswith('-') and not line.startswith('---')
IsDeleteLine(line) ==
    /\ ~IsAddLine(line)
    /\ StartsWith(line, <<"-">>) /\ ~StartsWith(line, <<"-", "-", "-">>)

\* elif line.startswith('@@')
IsHunkLine(line) ==
    /\ ~IsAddLine(line)
    /\ ~IsDeleteLine(line)
    /\ StartsWith(line, <<"@", "@">>)

NoRecord == [type |-> "none", content |-> <<>>]

\* LineRecord retaining every other line as a context record
LineRecordKeepingContext(line) ==
    IF IsAddLine(line)
    THEN [type |-> "add", content |-> SubSeq(line, 2, Len(line))]
    ELSE IF IsDeleteLine(line)
    THEN [type |-> "delete", content |-> SubSeq(line, 2, Len(line))]
    ELSE IF IsHunkLine(line)
    THEN [type |-> "hunk", content |-> line]
    ELSE [type |-> "context", content |-> line]

\* what one pass of the loop over diff_lines appends: a record, or nothing
LineRecord(line) ==
    IF IsAddLine(line)
    THEN [type |-> "add", content |-> SubSeq(line, 2, Len(line))]
    ELSE IF IsDeleteLine(line)
    THEN [type |-> "delete", content |-> SubSeq(line, 2, Len(line))]
    ELSE IF IsHunkLine(line)
    THEN [type |-> "hunk", content |-> line]
    ELSE NoRecord

\* Extract with the '+++' exclusion forgotten in the insertions counter
ExtractCountingHeaders(diff_lines) ==
    LET n == Len(diff_lines)
    IN  [ins |-> Cardinality({k \in 1..n : StartsWith(diff_lines[k], <<"+">>)}),
         dels |-> Cardinality({k \in 1..n : IsDeleteLine(diff_lines[k])}),
         recs |-> SelectSeq([k \in 1..n |-> LineRecord(diff_lines[k])],
                            LAMBDA r : r # NoRecord)]

\* the loop over diff_lines: the two counters and line_changes
Extract(diff_lines) ==
    LET n == Len(diff_lines)
    IN  [ins |-> Cardinality({k \in 1..n : IsAddLine(diff_lines[k])}),
         dels |-> Cardinality({k \in 1..n : IsDeleteLine(diff_lines[k])}),
         recs |-> SelectSeq([k \in 1..n |-> LineRecord(diff_lines[k])],
                            LAMBDA r : r # NoRecord)]

\* f'... {n} lines truncated ...'
TruncatedText(n) ==
    <<".", ".", ".", " ">> \o IntToStr(n)
    \o <<" ", "l", "i", "n", "e", "s", " ",
         "t", "r", "u", "n", "c", "a", "t", "e", "d", " ", ".", ".", ".">>

TruncatedMarker(n) == [type |-> "truncated", content |-> TruncatedText(n)]

\* Truncate keeping line_changes[-51:]
TruncateLongTail(changes) ==
    IF Len(changes) > Threshold
    THEN SubSeq(changes, 1, HeadLen)
         \o <<TruncatedMarker(Len(changes) - Threshold)>>
         \o SubSeq(changes, Len(changes) - TailLen, Len(changes))
    ELSE changes

\* Truncate stating len(line_changes) - 50 in the marker
TruncateWrongCount(changes) ==
    IF Len(changes) > Threshold
    THEN SubSeq(changes, 1, HeadLen)
         \o <<TruncatedMarker(Len(changes) - HeadLen)>>
         \o SubSeq(changes, Len(changes) - TailLen + 1, Len(changes))
    ELSE changes

\* Truncate with len(line_changes) >= 100 as its test
TruncateAtThreshold(changes) ==
    IF Len(changes) >= Threshold
    THEN SubSeq(changes, 1, HeadLen)
         \o <<TruncatedMarker(Len(changes) - Threshold)>>
         \o SubSeq(changes, Len(changes) - TailLen + 1, Len(changes))
    ELSE changes

\* Truncate leaving alone a list that already holds a marker
TruncateOnce(changes) ==
    IF Len(changes) > Threshold
       /\ \A k \in 1..Len(changes) : changes[k].type # "truncated"
    THEN SubSeq(changes, 1, HeadLen)
         \o <<TruncatedMarker(Len(changes) - Threshold)>>
         \o SubSeq(changes, Len(changes) - TailLen + 1, Len(changes))
    ELSE changes

\* line_changes[:50] + [marker] + line_changes[-50:], or the list itself
Truncate(changes) ==
    IF Len(changes) > Threshold
    THEN SubSeq(changes, 1, HeadLen)
         \o <<TruncatedMarker(Len(changes) - Threshold)>>
         \o SubSeq(changes, Len(changes) - TailLen + 1, Len(changes))
    ELSE changes

\* the pre-truncation list, <<>> when diff.diff is empty
ExtractedChanges(bytes) ==
    IF bytes # <<>> THEN Extract(Split(Decode(bytes))).recs ELSE <<>>

process_diff(bytes) ==
    IF bytes # <<>>
    THEN LET st == Extract(Split(Decode(bytes)))
         IN  [insertions |-> st.ins,
              deletions |-> st.dels,
              diff_content |-> Truncate(st.recs)]
    ELSE EmptyInfo

(* --------------------- _prepare_side_by_side_diff ---------------------- *)

EmptyCell == [type |-> "empty", content |-> <<>>]

\* Max giving the pairing loop a row for every delete and one for every add
MaxAsSum(a, b) == a + b

Max(a, b) == IF a >= b THEN a ELSE b

Min(a, b) == IF a <= b THEN a ELSE b

\* while i < len(diff_content) and diff_content[i]['type'] == t: i += 1
\* (0-based i; the value of i when the loop started at k exits)
RunEnd(diff_content, k, t) ==
    CHOOSE e \in k..Len(diff_content) :
        /\ \A m \in k..(e - 1) : diff_content[m + 1].type = t
        /\ e = Len(diff_content) \/ diff_content[e + 1].type # t

\* diff_content[a:b] for 0-based a <= b
Slice(s, a, b) == SubSeq(s, a + 1, b)

\* PairLeft looping over range(len(delete_block))
PairLeftDeletesOnly(delete_block, add_block) == delete_block

\* the pairing loop's left appends: for j in range(max_len)
PairLeft(delete_block, add_block) ==
    [j \in 1..Max(Len(delete_block), Len(add_block)) |->
        IF j <= Len(delete_block) THEN delete_block[j] ELSE EmptyCell]

\* PairRight taking the add block from its end
PairRightReversed(delete_block, add_block) ==
    [j \in 1..Max(Len(delete_block), Len(add_block)) |->
        IF j <= Len(add_block) THEN add_block[Len(add_block) + 1 - j]
        ELSE EmptyCell]

\* the pairing loop's right appends
PairRight(delete_block, add_block) ==
    [j \in 1..Max(Len(delete_block), Len(add_block)) |->
        IF j <= Len(add_block) THEN add_block[j] ELSE EmptyCell]

ContextCell(line) == [type |-> "context", content |-> line.content]

\* DeleteBranch without the 'i -= 1' adjustment
DeleteBranchNoAdjust(diff_content, st) ==
    LET dEnd == RunEnd(diff_content, st.i, "delete")
        aEnd == RunEnd(diff_content, dEnd, "add")
        delete_block == Slice(diff_content, st.i, dEnd)
        add_block == Slice(diff_content, dEnd, aEnd)
    IN  [i |-> aEnd,
         left |-> st.left \o PairLeft(delete_block, add_block),
         right |-> st.right \o PairRight(delete_block, add_block)]

\* the delete branch, shared text of both aligners; st = [i, left, right]
DeleteBranch(diff_content, st) ==
    LET dEnd == RunEnd(diff_content, st.i, "delete")
        aEnd == RunEnd(diff_content, dEnd, "add")
        delete_block == Slice(diff_content, st.i, dEnd)
        add_block == Slice(diff_content, dEnd, aEnd)
    IN  [i |-> aEnd - 1,
         left |-> st.left \o PairLeft(delete_block, add_block),
         right |-> st.right \o PairRight(delete_block, add_block)]

\* HunkBranch putting the header on the left side only
HunkBranchLeftOnly(st, line) ==
    [st EXCEPT !.left = Append(@, line), !.right = Append(@, EmptyCell)]

\* the hunk branch: the record itself on both sides
HunkBranch(st, line) ==
    [st EXCEPT !.left = Append(@, line), !.right = Append(@, line)]

\* AddBranch leaving the left list alone, for a later delete to fill
AddBranchNoEmptyCell(st, line) ==
    [st EXCEPT !.right = Append(@, line)]

\* the add branch: a standalone add
AddBranch(st, line) ==
    [st EXCEPT !.left = Append(@, EmptyCell), !.right = Append(@, line)]

\* the truncated branch, which only the HTML renderer's aligner has
TruncatedBranch(st, line) ==
    [st EXCEPT !.left = Append(@, line), !.right = Append(@, line)]

\* ContextBranch showing the context line on the left side only
ContextBranchLeftOnly(st, line) ==
    [st EXCEPT !.left = Append(@, ContextCell(line)),
               !.right = Append(@, EmptyCell)]

\* the else branch: a fresh context cell on both sides
ContextBranch(st, line) ==
    [st EXCEPT !.left = Append(@, ContextCell(line)),
               !.right = Append(@, ContextCell(line))]

\* HtmlAlignBody giving every delete a row of its own, adds unpaired
HtmlAlignBodyNoPairing(diff_content, st) ==
    LET line == diff_content[st.i + 1]
        branch ==
            IF line.type = "hunk" THEN HunkBranch(st, line)
            ELSE IF line.type = "delete"
            THEN [st EXCEPT !.left = Append(@, line),
                            !.right = Append(@, EmptyCell)]
            ELSE IF line.type = "add" THEN AddBranch(st, line)
            ELSE IF line.type = "truncated" THEN TruncatedBranch(st, line)
            ELSE ContextBranch(st, line)
    IN  [branch EXCEPT !.i = @ + 1]

\* one iteration of HTMLDiffRenderer._prepare_side_by_side_diff's while loop
HtmlAlignBody(diff_content, st) ==
    LET line == diff_content[st.i + 1]
        branch ==
            IF line.type = "hunk" THEN HunkBranch(st, line)
            ELSE IF line.type = "delete" THEN DeleteBranch(diff_content, st)
            ELSE IF line.type = "add" THEN AddBranch(st, line)
            ELSE IF line.type = "truncated" THEN TruncatedBranch(st, line)
            ELSE ContextBranch(st, line)
    IN  [branch EXCEPT !.i = @ + 1]

\* VizAlignBody with 'i += 2' as its last statement
VizAlignBodyStepTwo(diff_content, st) ==
    LET line == diff_content[st.i + 1]
        branch ==
            IF line.type = "hunk" THEN HunkBranch(st, line)
            ELSE IF line.type = "delete" THEN DeleteBranch(diff_content, st)
            ELSE IF line.type = "add" THEN AddBranch(st, line)
            ELSE ContextBranch(st, line)
    IN  [branch EXCEPT !.i = @ + 2]

\* one iteration of DiffVisualizer._prepare_side_by_side_diff's while loop
VizAlignBody(diff_content, st) ==
    LET line == diff_content[st.i + 1]
        branch ==
            IF line.type = "hunk" THEN HunkBranch(st, line)
            ELSE IF line.type = "delete" THEN DeleteBranch(diff_content, st)
            ELSE IF line.type = "add" THEN AddBranch(st, line)
            ELSE ContextBranch(st, line)
    IN  [branch EXCEPT !.i = @ + 1]

AlignStart == [i |-> 0, left |-> <<>>, right |-> <<>>]

\* the whole call, as the pair it returns
RECURSIVE HtmlAlignRun(_, _)
HtmlAlignRun(diff_content, st) ==
    IF st.i < Len(diff_content)
    THEN HtmlAlignRun(diff_content, HtmlAlignBody(diff_content, st))
    ELSE st

RECURSIVE VizAlignRun(_, _)
VizAlignRun(diff_content, st) ==
    IF st.i < Len(diff_content)
    THEN VizAlignRun(diff_content, VizAlignBody(diff_content, st))
    ELSE st

html_prepare_side_by_side_diff(diff_content) ==
    LET st == HtmlAlignRun(diff_content, AlignStart) IN <<st.left, st.right>>

viz_prepare_side_by_side_diff(diff_content) ==
    LET st == VizAlignRun(diff_content, AlignStart) IN <<st.left, st.right>>

(* ------------------------- hunk header parsing ------------------------- *)

\* the end of the run of digits that starts at position p (first non-digit)
DigitRunEnd(s, p) ==
    CHOOSE q \in p..(Len(s) + 1) :
        /\ \A r \in p..(q - 1) : IsDigit(s[r])
        /\ q = Len(s) + 1 \/ ~IsDigit(s[q])

HasAt(s, p, lit) ==
    /\ p + Len(lit) - 1 <= Len(s)
    /\ SubSeq(s, p, p + Len(lit) - 1) = lit

\* ,?\d* from position p: where it ends
SkipCount(s, p) ==
    DigitRunEnd(s, IF HasAt(s, p, <<",">>) THEN p + 1 ELSE p)

\* no match: what re.match returns when the pattern does not match
NoMatch == <<>>

\* re.match(r'@@ -(\d+),?\d* \+(\d+),?\d* @@', s): <<int(group 1), int(group 2)>>
HunkMatch(s) ==
    LET p1 == 5
        e1 == DigitRunEnd(s, p1)
        c1 == SkipCount(s, e1)
        p2 == c1 + 2
        e2 == DigitRunEnd(s, p2)
        c2 == SkipCount(s, e2)
    IN  IF /\ HasAt(s, 1, <<"@", "@", " ", "-">>)
           /\ e1 > p1
           /\ HasAt(s, c1, <<" ", "+">>)
           /\ e2 > p2
           /\ HasAt(s, c2, <<" ", "@", "@">>)
        THEN <<StrToInt(SubSeq(s, p1, e1 - 1)), StrToInt(SubSeq(s, p2, e2 - 1))>>
        ELSE NoMatch

\* StartNums taking the first hunk record that matches the pattern
StartNumsFirstMatching(lines) ==
    LET hunks == {k \in 1..Len(lines) :
                     lines[k].type = "hunk" /\ HunkMatch(lines[k].content) # NoMatch}
    IN  IF hunks = {} THEN <<1, 1>>
        ELSE LET first == CHOOSE k \in hunks : \A m \in hunks : k <= m
             IN  HunkMatch(lines[first].content)

\* the scan for the first hunk: the counters' starting values
StartNums(lines) ==
    LET hunks == {k \in 1..Len(lines) : lines[k].type = "hunk"}
    IN  IF hunks = {} THEN <<1, 1>>
        ELSE LET first == CHOOSE k \in hunks : \A m \in hunks : k <= m
                 hunk_match == HunkMatch(lines[first].content)
             IN  IF hunk_match # NoMatch THEN hunk_match ELSE <<1, 1>>

(* ------------------------------ inputs --------------------------------- *)

HunkOk == <<"@", "@", " ", "-", "5", " ", "+", "7", " ", "@", "@">>

HunkCounts ==
    <<"@", "@", " ", "-", "1", "2", ",", "3", " ", "+", "9", ",", "4", " ", "@", "@">>

HunkBad == <<"@", "@", " ", "b", "a", "d">>

\* the header of a new file: no old lines
HunkZero ==
    <<"@", "@", " ", "-", "0", ",", "0", " ", "+", "1", ",", "3", " ", "@", "@">>

HunkHeaders == {HunkOk, HunkCounts, HunkBad, HunkZero}

\* the records a caller may put at position k of a diff_content
RecordsAt(k) ==
    {[type |-> t, content |-> IntToStr(k)] : t \in {"add", "delete", "context"}}
    \cup {[type |-> "hunk", content |-> h] : h \in HunkHeaders}
    \cup {TruncatedMarker(k)}

RECURSIVE RecordSeqs(_)
RecordSeqs(n) ==
    IF n = 0 THEN {<<>>}
    ELSE LET shorter == RecordSeqs(n - 1)
         IN  shorter \cup
             {Append(s, r) : s \in {t \in shorter : Len(t) = n - 1},
                             r \in RecordsAt(n)}

\* one record of each type at position k: what the aligner's branches tell
\* apart
TypedRecordsAt(k) ==
    {r \in RecordsAt(k) : r.type = "hunk" => r.content = HunkOk}

RECURSIVE TypedRecordSeqs(_)
TypedRecordSeqs(n) ==
    IF n = 0 THEN {<<>>}
    ELSE LET shorter == TypedRecordSeqs(n - 1)
         IN  shorter \cup
             {Append(s, r) : s \in {t \in shorter : Len(t) = n - 1},
                             r \in TypedRecordsAt(n)}

CountType(records, t) ==
    Cardinality({k \in 1..Len(records) : records[k].type = t})

\* the beginnings of the lines of a raw diff; line k is a beginning
\* followed by the digits of k
LineStarts ==
    { <<"+">>, <<"-">>, <<" ">>, HunkOk \o <<" ">>, HunkZero \o <<" ">>,
      <<"+", "+", "+", " ">>, <<"-", "-", "-", " ">>,
      <<"+", "+">>, <<"-", "-">>, <<"+", BadByte>> }

\* the beginnings the long raw diffs repeat
LongStarts == { <<"+">>, <<"-">>, <<" ">>, HunkOk \o <<" ">> }

\* the bytes of lines[lo..hi], '\n' between them
RECURSIVE Joined(_, _, _)
Joined(lines, lo, hi) ==
    IF lo > hi THEN <<>>
    ELSE IF lo = hi THEN lines[lo]
    ELSE LET mid == (lo + hi) \div 2
         IN  Joined(lines, lo, mid) \o <<"\n">> \o Joined(lines, mid + 1, hi)

RawDiff(lines) == Joined(lines, 1, Len(lines))

RECURSIVE StartSeqs(_, _)
StartSeqs(n, starts) ==
    IF n = 0 THEN {<<>>}
    ELSE {Append(s, b) : s \in StartSeqs(n - 1, starts), b \in starts}

Numbered(startSeq) == [k \in 1..Len(startSeq) |-> startSeq[k] \o IntToStr(k)]

ShortDiffs ==
    {RawDiff(Numbered(s)) : s \in UNION {StartSeqs(n, LineStarts) : n \in 0..MaxShort}}

Periodic(pattern, n) == [k \in 1..n |-> pattern[((k - 1) % Len(pattern)) + 1]]

LongDiffs ==
    {RawDiff(Numbered(Periodic(p, n))) :
        p \in UNION {StartSeqs(m, LongStarts) : m \in 1..MaxPeriod},
        n \in (Threshold - Margin)..(Threshold + Margin)}

(* ----------------------------- the machine ------------------------------ *)

Idle ==
    /\ i = 0
    /\ left_lines = <<>>
    /\ right_lines = <<>>
    /\ row = 0
    /\ left_line_num = 1
    /\ right_line_num = 1
    /\ out = <<>>
    /\ y_position = YStart
    /\ total_diff_lines = 0

\* main is not running
CliIdle ==
    /\ cli_pc = "off"
    /\ commit_list = <<>>
    /\ verbose = FALSE
    /\ idx = 0
    /\ processed_commits = <<>>
    /\ documents = <<>>

NewCommitInfo ==
    [files |-> <<>>,
     stats |-> [files_changed |-> 0, insertions |-> 0, deletions |-> 0]]

\* process_commit is not running
CommitIdle ==
    /\ commit_pc = "off"
    /\ diffs = <<>>
    /\ max_files = 0
    /\ diff_idx = 0
    /\ commit_info = NewCommitInfo
    /\ processed_files = 0

\* no file is being processed or rendered
FileIdle ==
    /\ pc = "off"
    /\ diff = <<>>
    /\ line_changes = <<>>
    /\ file_info = EmptyInfo
    /\ Idle

\* a file's raw diff, about to be processed
Init ==
    /\ pc = "start"
    /\ diff \in ShortDiffs \cup LongDiffs
    /\ line_changes = <<>>
    /\ file_info = EmptyInfo
    /\ Idle
    /\ CliIdle
    /\ CommitIdle

\* a renderer entered with a file_info of the caller's making
InitAlign ==
    /\ pc = "processed"
    /\ diff = <<>>
    /\ line_changes = <<>>
    /\ \E dc \in RecordSeqs(MaxLen) :
          file_info = [insertions |-> CountType(dc, "add"),
                       deletions |-> CountType(dc, "delete"),
                       diff_content |-> dc]
    /\ Idle
    /\ CliIdle
    /\ CommitIdle

\* a renderer entered with one record of each type per position
InitTyped ==
    /\ pc = "processed"
    /\ diff = <<>>
    /\ line_changes = <<>>
    /\ \E dc \in TypedRecordSeqs(MaxTypedLen) :
          file_info = [insertions |-> CountType(dc, "add"),
                       deletions |-> CountType(dc, "delete"),
                       diff_content |-> dc]
    /\ Idle
    /\ CliIdle
    /\ CommitIdle

\* CommitProcessor._process_diff
ProcessDiff ==
    /\ pc = "start"
    /\ line_changes' = ExtractedChanges(diff)
    /\ file_info' = process_diff(diff)
    /\ pc' = "processed"
    /\ UNCHANGED <<diff, i, left_lines, right_lines, row, left_line_num,
                   right_line_num, out, y_position, total_diff_lines>>
    /\ UNCHANGED <<cliVars, commitVars>>

CellAt(lines, k) == IF k < Len(lines) THEN lines[k + 1] ELSE EmptyCell

\* the line-number column of one side of an emitted row: a number, nothing,
\* or the '...' of a hunk row
Num(n) == [kind |-> "num", n |-> n]

Blank == [kind |-> "blank", n |-> 0]

Dots == [kind |-> "dots", n |-> 0]

(* HTMLDiffRenderer._render_file_diff *)

\* the call of _prepare_side_by_side_diff is entered
HtmlBegin ==
    /\ pc = "processed"
    /\ pc' = "html_align"
    /\ i' = 0
    /\ left_lines' = <<>>
    /\ right_lines' = <<>>
    /\ UNCHANGED <<diff, line_changes, file_info, row, left_line_num,
                   right_line_num, out, y_position, total_diff_lines>>
    /\ UNCHANGED <<cliVars, commitVars>>

\* one iteration of the aligner's while loop
HtmlAlignStep ==
    /\ pc = "html_align"
    /\ i < Len(file_info.diff_content)
    /\ LET st == HtmlAlignBody(file_info.diff_content,
                               [i |-> i, left |-> left_lines, right |-> right_lines])
       IN  /\ i' = st.i
           /\ left_lines' = st.left
           /\ right_lines' = st.right
    /\ UNCHANGED <<pc, diff, line_changes, file_info, row, left_line_num,
                   right_line_num, out, y_position, total_diff_lines>>
    /\ UNCHANGED <<cliVars, commitVars>>

\* the aligner returns; the counters are set from the first hunk
HtmlStartRender ==
    /\ pc = "html_align"
    /\ ~(i < Len(file_info.diff_content))
    /\ pc' = "html_render"
    /\ left_line_num' = StartNums(file_info.diff_content)[1]
    /\ right_line_num' = StartNums(file_info.diff_content)[2]
    /\ row' = 0
    /\ UNCHANGED <<diff, line_changes, file_info, i, left_lines, right_lines,
                   out, y_position, total_diff_lines>>
    /\ UNCHANGED <<cliVars, commitVars>>

\* what one pass of the render loop emits and does to the counters
HtmlRow(left_line, right_line, lnum, rnum) ==
    IF left_line.type = "hunk" \/ right_line.type = "hunk"
    THEN [left_no |-> Dots, right_no |-> Dots, lnum |-> lnum, rnum |-> rnum]
    ELSE [left_no |-> IF left_line.type # "empty" THEN Num(lnum) ELSE Blank,
          right_no |-> IF right_line.type # "empty" THEN Num(rnum) ELSE Blank,
          lnum |-> IF left_line.type # "empty" THEN lnum + 1 ELSE lnum,
          rnum |-> IF right_line.type # "empty" THEN rnum + 1 ELSE rnum]

HtmlRenderRow ==
    /\ pc = "html_render"
    /\ row < Len(left_lines)
    /\ LET r == HtmlRow(CellAt(left_lines, row), CellAt(right_lines, row),
                        left_line_num, right_line_num)
       IN  /\ out' = Append(out, [left_no |-> r.left_no, right_no |-> r.right_no])
           /\ left_line_num' = r.lnum
           /\ right_line_num' = r.rnum
    /\ row' = row + 1
    /\ UNCHANGED <<pc, diff, line_changes, file_info, i, left_lines,
                   right_lines, y_position, total_diff_lines>>
    /\ UNCHANGED <<cliVars, commitVars>>

HtmlFinish ==
    /\ pc = "html_render"
    /\ ~(row < Len(left_lines))
    /\ pc' = "html_done"
    /\ UNCHANGED <<diff, line_changes, file_info, i, left_lines, right_lines,
                   row, left_line_num, right_line_num, out, y_position,
                   total_diff_lines>>
    /\ UNCHANGED <<cliVars, commitVars>>

(* DiffVisualizer._create_diff_image, for the commit's first file *)

\* sizing call of the aligner, commit header, file header; the drawing
\* call of the aligner is entered
VizBegin ==
    /\ pc = "processed"
    /\ pc' = "viz_align"
    /\ LET sized == viz_prepare_side_by_side_diff(file_info.diff_content)
       IN  total_diff_lines' = total_diff_lines + Max(Len(sized[1]), Len(sized[2]))
    /\ y_position' = YStart - 8 * LineHeight - 2 * LineHeight
    /\ i' = 0
    /\ left_lines' = <<>>
    /\ right_lines' = <<>>
    /\ UNCHANGED <<diff, line_changes, file_info, row, left_line_num,
                   right_line_num, out>>
    /\ UNCHANGED <<cliVars, commitVars>>

\* VizAlignStep whose else branch retypes the record itself instead of
\* building a fresh context cell
VizAlignStepRetyping ==
    /\ pc = "viz_align"
    /\ i < Len(file_info.diff_content)
    /\ LET st == VizAlignBody(file_info.diff_content,
                              [i |-> i, left |-> left_lines, right |-> right_lines])
       IN  /\ i' = st.i
           /\ left_lines' = st.left
           /\ right_lines' = st.right
    /\ file_info' =
           [file_info EXCEPT !.diff_content[i + 1].type =
                IF @ \in {"hunk", "delete", "add"} THEN @ ELSE "context"]
    /\ UNCHANGED <<pc, diff, line_changes, row, left_line_num,
                   right_line_num, out, y_position, total_diff_lines>>
    /\ UNCHANGED <<cliVars, commitVars>>

VizAlignStep ==
    /\ pc = "viz_align"
    /\ i < Len(file_info.diff_content)
    /\ LET st == VizAlignBody(file_info.diff_content,
                              [i |-> i, left |-> left_lines, right |-> right_lines])
       IN  /\ i' = st.i
           /\ left_lines' = st.left
           /\ right_lines' = st.right
    /\ UNCHANGED <<pc, diff, line_changes, file_info, row, left_line_num,
                   right_line_num, out, y_position, total_diff_lines>>
    /\ UNCHANGED <<cliVars, commitVars>>

VizStartDraw ==
    /\ pc = "viz_align"
    /\ ~(i < Len(file_info.diff_content))
    /\ pc' = "viz_render"
    /\ left_line_num' = StartNums(left_lines)[1]
    /\ right_line_num' = StartNums(left_lines)[2]
    /\ row' = 0
    /\ UNCHANGED <<diff, line_changes, file_info, i, left_lines, right_lines,
                   out, y_position, total_diff_lines>>
    /\ UNCHANGED <<cliVars, commitVars>>

max_lines == Min(MaxDrawnLines, Max(Len(left_lines), Len(right_lines)))

\* the number text _draw_github_diff_line puts beside a cell
VizNumText(cell, num) ==
    IF cell.type # "empty"
    THEN (IF cell.type = "hunk" THEN Dots ELSE Num(num))
    ELSE Blank

\* one pass of the drawing loop
VizRow(left_line, right_line, lnum, rnum) ==
    [left_no |-> VizNumText(left_line, lnum),
     right_no |-> VizNumText(right_line, rnum),
     lnum |-> IF left_line.type # "empty" /\ left_line.type # "add"
              THEN lnum + 1 ELSE lnum,
     rnum |-> IF right_line.type # "empty" /\ right_line.type # "delete"
              THEN rnum + 1 ELSE rnum]

VizDrawRow ==
    /\ pc = "viz_render"
    /\ row < max_lines
    /\ ~(y_position < YRowLimit)
    /\ LET r == VizRow(CellAt(left_lines, row), CellAt(right_lines, row),
                       left_line_num, right_line_num)
       IN  /\ out' = Append(out, [left_no |-> r.left_no, right_no |-> r.right_no])
           /\ left_line_num' = r.lnum
           /\ right_line_num' = r.rnum
    /\ y_position' = y_position - LineHeight
    /\ row' = row + 1
    /\ UNCHANGED <<pc, diff, line_changes, file_info, i, left_lines,
                   right_lines, total_diff_lines>>
    /\ UNCHANGED <<cliVars, commitVars>>

VizFinish ==
    /\ pc = "viz_render"
    /\ ~(row < max_lines /\ ~(y_position < YRowLimit))
    /\ pc' = "viz_done"
    /\ y_position' = y_position - LineHeight
    /\ UNCHANGED <<diff, line_changes, file_info, i, left_lines, right_lines,
                   row, left_line_num, right_line_num, out, total_diff_lines>>
    /\ UNCHANGED <<cliVars, commitVars>>

Render ==
    \/ HtmlBegin
    \/ HtmlAlignStep
    \/ HtmlStartRender
    \/ HtmlRenderRow
    \/ HtmlFinish
    \/ VizBegin
    \/ VizAlignStep
    \/ VizStartDraw
    \/ VizDrawRow
    \/ VizFinish

Next == ProcessDiff \/ Render

NextAlign == Render

Spec == Init /\ [][Next]_vars

SpecAlign == InitAlign /\ [][NextAlign]_vars

\* the renderers run to completion: a step that can be taken is taken
SpecAlignFair == InitTyped /\ [][NextAlign]_vars /\ WF_vars(NextAlign)

(* --------------------------- cli.main's loop --------------------------- *)

\* what happens when a commit is processed: process_commit and
\* generate_diff_image both return, or one of them raises
Outcomes == {"ok", "process_commit raises", "generate_diff_image raises"}

\* the commit lists of n commits; commit k has hash k
RECURSIVE CommitLists(_)
CommitLists(n) ==
    IF n = 0 THEN {<<>>}
    ELSE LET shorter == CommitLists(n - 1)
         IN  shorter \cup
             {Append(s, [hash |-> n, outcome |-> o]) :
                  s \in {t \in shorter : Len(t) = n - 1}, o \in Outcomes}

\* main at the top of its commit loop
InitCli ==
    /\ cli_pc = "loop"
    /\ commit_list \in CommitLists(MaxCommits)
    /\ verbose \in BOOLEAN
    /\ idx = 0
    /\ processed_commits = <<>>
    /\ documents = <<>>
    /\ CommitIdle
    /\ FileIdle

\* the commit_info main appends: the commit and the name of its image,
\* numbered by the commit's position in the list
ProcessedCommit(commit, index) == [hash |-> commit.hash, image_index |-> index]

\* CommitSucceeds putting the new commit_info first
CommitSucceedsPrepending ==
    /\ cli_pc = "loop"
    /\ idx < Len(commit_list)
    /\ commit_list[idx + 1].outcome = "ok"
    /\ processed_commits' =
           <<ProcessedCommit(commit_list[idx + 1], idx + 1)>> \o processed_commits
    /\ idx' = idx + 1
    /\ UNCHANGED <<cli_pc, commit_list, verbose, documents>>
    /\ UNCHANGED <<fileVars, commitVars>>

\* one pass of the loop whose try block runs to its end
CommitSucceeds ==
    /\ cli_pc = "loop"
    /\ idx < Len(commit_list)
    /\ commit_list[idx + 1].outcome = "ok"
    /\ processed_commits' =
           Append(processed_commits, ProcessedCommit(commit_list[idx + 1], idx + 1))
    /\ idx' = idx + 1
    /\ UNCHANGED <<cli_pc, commit_list, verbose, documents>>
    /\ UNCHANGED <<fileVars, commitVars>>

\* one pass whose try block raises, without --verbose: log and continue
CommitFailsSkipped ==
    /\ cli_pc = "loop"
    /\ idx < Len(commit_list)
    /\ commit_list[idx + 1].outcome # "ok"
    /\ ~verbose
    /\ idx' = idx + 1
    /\ UNCHANGED <<cli_pc, commit_list, verbose, processed_commits, documents>>
    /\ UNCHANGED <<fileVars, commitVars>>

\* one pass whose try block raises, with --verbose: the handler re-raises,
\* main's outer handler reports the error and calls sys.exit(1)
CommitFailsRaised ==
    /\ cli_pc = "loop"
    /\ idx < Len(commit_list)
    /\ commit_list[idx + 1].outcome # "ok"
    /\ verbose
    /\ cli_pc' = "exit 1"
    /\ UNCHANGED <<commit_list, verbose, idx, processed_commits, documents>>
    /\ UNCHANGED <<fileVars, commitVars>>

\* after the loop: generator.generate_document(processed_commits)
GenerateDocument ==
    /\ cli_pc = "loop"
    /\ idx = Len(commit_list)
    /\ documents' = Append(documents, processed_commits)
    /\ cli_pc' = "done"
    /\ UNCHANGED <<commit_list, verbose, idx, processed_commits>>
    /\ UNCHANGED <<fileVars, commitVars>>

NextCli ==
    \/ CommitSucceeds
    \/ CommitFailsSkipped
    \/ CommitFailsRaised
    \/ GenerateDocument

\* main runs on: a step that can be taken is taken
SpecCli == InitCli /\ [][NextCli]_vars /\ WF_vars(NextCli)

(* ------------------- CommitProcessor.process_commit -------------------- *)

UpperLetters ==
    <<"A", "B", "C", "D", "E", "F", "G", "H", "I", "J", "K", "L", "M",
      "N", "O", "P", "Q", "R", "S", "T", "U", "V", "W", "X", "Y", "Z">>

LowerLetters ==
    <<"a", "b", "c", "d", "e", "f", "g", "h", "i", "j", "k", "l", "m",
      "n", "o", "p", "q", "r", "s", "t", "u", "v", "w", "x", "y", "z">>

\* str.lower(), character by character
LowerChar(c) ==
    IF \E k \in 1..26 : UpperLetters[k] = c
    THEN LowerLetters[CHOOSE k \in 1..26 : UpperLetters[k] = c]
    ELSE c

Lower(str) == [k \in 1..Len(str) |-> LowerChar(str[k])]

\* fnmatch.fnmatch(str, pattern) for patterns of literals and '*'
RECURSIVE FnMatch(_, _)
FnMatch(str, pattern) ==
    IF pattern = <<>> THEN str = <<>>
    ELSE IF pattern[1] = "*"
    THEN \/ FnMatch(str, Tail(pattern))
         \/ str # <<>> /\ FnMatch(Tail(str), pattern)
    ELSE /\ str # <<>>
         /\ str[1] = pattern[1]
         /\ FnMatch(Tail(str), Tail(pattern))

\* the patterns __init__ appends to exclude_patterns (none given by the user)
exclude_patterns ==
    { <<"*", ".", "l", "o", "c", "k">>,
      <<"p", "a", "c", "k", "a", "g", "e", "-", "l", "o", "c", "k", ".", "j", "s", "o", "n">>,
      <<"y", "a", "r", "n", ".", "l", "o", "c", "k">>,
      <<"G", "e", "m", "f", "i", "l", "e", ".", "l", "o", "c", "k">>,
      <<"n", "o", "d", "e", "_", "m", "o", "d", "u", "l", "e", "s", "/", "*">>,
      <<"_", "_", "p", "y", "c", "a", "c", "h", "e", "_", "_", "/", "*">>,
      <<"*", ".", "p", "y", "c">>, <<".", "g", "i", "t", "/", "*">>,
      <<".", "D", "S", "_", "S", "t", "o", "r", "e">>,
      <<"T", "h", "u", "m", "b", "s", ".", "d", "b">>,
      <<"*", ".", "m", "i", "n", ".", "j", "s">>,
      <<"*", ".", "m", "i", "n", ".", "c", "s", "s">> }

TEXT_EXTENSIONS ==
    { <<".", "p", "y">>, <<".", "j", "s">>, <<".", "t", "s">>,
      <<".", "j", "s", "x">>, <<".", "t", "s", "x">>,
      <<".", "j", "a", "v", "a">>, <<".", "c">>, <<".", "c", "p", "p">>,
      <<".", "h">>, <<".", "h", "p", "p">>, <<".", "c", "s">>,
      <<".", "g", "o">>, <<".", "r", "s">>, <<".", "r", "b">>,
      <<".", "p", "h", "p">>, <<".", "s", "w", "i", "f", "t">>,
      <<".", "k", "t">>, <<".", "s", "c", "a", "l", "a">>, <<".", "r">>,
      <<".", "m", "d">>, <<".", "t", "x", "t">>, <<".", "j", "s", "o", "n">>,
      <<".", "x", "m", "l">>, <<".", "y", "a", "m", "l">>,
      <<".", "y", "m", "l">>, <<".", "t", "o", "m", "l">>,
      <<".", "i", "n", "i">>, <<".", "c", "f", "g">>,
      <<".", "h", "t", "m", "l">>, <<".", "c", "s", "s">>,
      <<".", "s", "c", "s", "s">>, <<".", "s", "a", "s", "s">>,
      <<".", "l", "e", "s", "s">>, <<".", "v", "u", "e">>,
      <<".", "s", "v", "e", "l", "t", "e">>, <<".", "s", "h">>,
      <<".", "b", "a", "s", "h">>, <<".", "z", "s", "h">>,
      <<".", "f", "i", "s", "h">>, <<".", "p", "s", "1">>,
      <<".", "b", "a", "t">>, <<".", "c", "m", "d">>, <<".", "s", "q", "l">>,
      <<".", "g", "r", "a", "p", "h", "q", "l">>,
      <<".", "p", "r", "o", "t", "o">>,
      <<".", "d", "o", "c", "k", "e", "r", "f", "i", "l", "e">>,
      <<".", "m", "a", "k", "e", "f", "i", "l", "e">> }

TextFileNames ==
    { <<"m", "a", "k", "e", "f", "i", "l", "e">>,
      <<"d", "o", "c", "k", "e", "r", "f", "i", "l", "e">>,
      <<"j", "e", "n", "k", "i", "n", "s", "f", "i", "l", "e">>,
      <<"r", "a", "k", "e", "f", "i", "l", "e">> }

should_skip_file(file_path) ==
    \E pattern \in exclude_patterns : FnMatch(file_path, pattern)

\* '.' + file_path.split('.')[-1].lower() if '.' in file_path else ''
FileExt(file_path) ==
    LET dots == {k \in 1..Len(file_path) : file_path[k] = "."}
    IN  IF dots = {} THEN <<>>
        ELSE LET last == CHOOSE k \in dots : \A m \in dots : m <= k
             IN  <<".">> \o Lower(SubSeq(file_path, last + 1, Len(file_path)))

is_text_file(file_path) ==
    IF file_path = <<>> THEN FALSE
    ELSE IF Lower(file_path) \in TextFileNames THEN TRUE
    ELSE FileExt(file_path) \in TEXT_EXTENSIONS

\* the paths of the diffs of a commit
SamplePaths ==
    { <<"m", "a", "i", "n", ".", "p", "y">>,
      <<"y", "a", "r", "n", ".", "l", "o", "c", "k">>,
      <<"l", "o", "g", "o", ".", "p", "n", "g">>,
      <<"M", "a", "k", "e", "f", "i", "l", "e">>,
      <<"a", "p", "p", ".", "m", "i", "n", ".", "j", "s">> }

\* the raw diffs of the diffs of a commit: one added line; one deleted and
\* two added lines
SampleBytes ==
    { RawDiff(Numbered(<< <<"+">> >>)),
      RawDiff(Numbered(<< <<"-">>, <<"+">>, <<"+">> >>)) }

\* a diff: its path, its raw bytes, and whether _process_diff meets an
\* exception on it (and returns None)
SampleDiffs ==
    LET all == [path : SamplePaths, bytes : SampleBytes, broken : BOOLEAN]
        first == CHOOSE b \in SampleBytes : Len(b) <= 2
    IN  {d \in all :
            /\ d.broken => d.bytes = first
            /\ (should_skip_file(d.path) \/ ~is_text_file(d.path))
                 => (d.bytes = first /\ ~d.broken)}

RECURSIVE DiffLists(_)
DiffLists(n) ==
    IF n = 0 THEN {<<>>}
    ELSE LET shorter == DiffLists(n - 1)
         IN  shorter \cup
             {Append(s, d) : s \in {t \in shorter : Len(t) = n - 1},
                             d \in SampleDiffs}

\* process_commit after commit_info is built, before its loop over diffs
InitCommit ==
    /\ commit_pc = "loop"
    /\ diffs \in DiffLists(MaxDiffs)
    /\ max_files \in 0..MaxFilesLimit
    /\ diff_idx = 0
    /\ commit_info = NewCommitInfo
    /\ processed_files = 0
    /\ CliIdle
    /\ FileIdle

\* the file_info _process_diff returns for a diff
FileEntry(d) ==
    LET info == process_diff(d.bytes)
    IN  [path |-> d.path,
         insertions |-> info.insertions,
         deletions |-> info.deletions,
         diff_content |-> info.diff_content]

\* if processed_files >= self.max_files: break
LoopBreak ==
    /\ commit_pc = "loop"
    /\ diff_idx < Len(diffs)
    /\ processed_files >= max_files
    /\ commit_pc' = "after loop"
    /\ UNCHANGED <<diffs, max_files, diff_idx, commit_info, processed_files>>
    /\ UNCHANGED <<fileVars, cliVars>>

\* the loop has gone through every diff
LoopEnd ==
    /\ commit_pc = "loop"
    /\ diff_idx = Len(diffs)
    /\ commit_pc' = "after loop"
    /\ UNCHANGED <<diffs, max_files, diff_idx, commit_info, processed_files>>
    /\ UNCHANGED <<fileVars, cliVars>>

\* if self.should_skip_file(file_path): continue
SkipExcluded ==
    /\ commit_pc = "loop"
    /\ diff_idx < Len(diffs)
    /\ processed_files < max_files
    /\ should_skip_file(diffs[diff_idx + 1].path)
    /\ diff_idx' = diff_idx + 1
    /\ UNCHANGED <<commit_pc, diffs, max_files, commit_info, processed_files>>
    /\ UNCHANGED <<fileVars, cliVars>>

\* if not self.is_text_file(file_path): continue
SkipNonText ==
    /\ commit_pc = "loop"
    /\ diff_idx < Len(diffs)
    /\ processed_files < max_files
    /\ ~should_skip_file(diffs[diff_idx + 1].path)
    /\ ~is_text_file(diffs[diff_idx + 1].path)
    /\ diff_idx' = diff_idx + 1
    /\ UNCHANGED <<commit_pc, diffs, max_files, commit_info, processed_files>>
    /\ UNCHANGED <<fileVars, cliVars>>

\* FileFailed counting the failed diff as a processed file
FileFailedCounted ==
    /\ commit_pc = "loop"
    /\ diff_idx < Len(diffs)
    /\ processed_files < max_files
    /\ ~should_skip_file(diffs[diff_idx + 1].path)
    /\ is_text_file(diffs[diff_idx + 1].path)
    /\ diffs[diff_idx + 1].broken
    /\ diff_idx' = diff_idx + 1
    /\ processed_files' = processed_files + 1
    /\ UNCHANGED <<commit_pc, diffs, max_files, commit_info>>
    /\ UNCHANGED <<fileVars, cliVars>>

\* _process_diff returned None: nothing is appended
FileFailed ==
    /\ commit_pc = "loop"
    /\ diff_idx < Len(diffs)
    /\ processed_files < max_files
    /\ ~should_skip_file(diffs[diff_idx + 1].path)
    /\ is_text_file(diffs[diff_idx + 1].path)
    /\ diffs[diff_idx + 1].broken
    /\ diff_idx' = diff_idx + 1
    /\ UNCHANGED <<commit_pc, diffs, max_files, commit_info, processed_files>>
    /\ UNCHANGED <<fileVars, cliVars>>

\* _process_diff returned a file_info: append it and add its counts
FileProcessed ==
    /\ commit_pc = "loop"
    /\ diff_idx < Len(diffs)
    /\ processed_files < max_files
    /\ ~should_skip_file(diffs[diff_idx + 1].path)
    /\ is_text_file(diffs[diff_idx + 1].path)
    /\ ~diffs[diff_idx + 1].broken
    /\ LET entry == FileEntry(diffs[diff_idx + 1])
       IN  commit_info' =
               [commit_info EXCEPT
                   !.files = Append(@, entry),
                   !.stats.insertions = @ + entry.insertions,
                   !.stats.deletions = @ + entry.deletions]
    /\ processed_files' = processed_files + 1
    /\ diff_idx' = diff_idx + 1
    /\ UNCHANGED <<commit_pc, diffs, max_files>>
    /\ UNCHANGED <<fileVars, cliVars>>

\* commit_info['stats']['files_changed'] = len(commit_info['files']); return
CommitReturn ==
    /\ commit_pc = "after loop"
    /\ commit_info' =
           [commit_info EXCEPT !.stats.files_changed = Len(commit_info.files)]
    /\ commit_pc' = "returned"
    /\ UNCHANGED <<diffs, max_files, diff_idx, processed_files>>
    /\ UNCHANGED <<fileVars, cliVars>>

NextCommit ==
    \/ LoopBreak
    \/ LoopEnd
    \/ SkipExcluded
    \/ SkipNonText
    \/ FileFailed
    \/ FileProcessed
    \/ CommitReturn

SpecCommit == InitCommit /\ [][NextCommit]_vars

(* ------------------------------- claims -------------------------------- *)

AlignPcs == {"html_align", "viz_align"}

AlignedPcs == {"html_render", "html_done", "viz_render", "viz_done"}

RenderPcs == {"html_render", "viz_render"}

HasType(records, t) == \E k \in 1..Len(records) : records[k].type = t

TypesOf(records) == [k \in 1..Len(records) |-> records[k].type]

\* C1: at every point of the aligner's loop, and so in what it returns, the
\* left and the right cell sequence have the same length (both aligners,
\* every record sequence, hunk and truncated records included).
C1_EqualLength == Len(left_lines) = Len(right_lines)

C1_Witness ==
    /\ pc \in AlignedPcs
    /\ HasType(file_info.diff_content, "hunk")
    /\ HasType(file_info.diff_content, "truncated")
    /\ HasType(file_info.diff_content, "delete")
    /\ Len(left_lines) = 3
    /\ \E r \in 1..Len(right_lines) : right_lines[r] = EmptyCell

\* C2 as stated: insertions and deletions count the 'add' and 'delete'
\* records of the returned (post-truncation) diff_content.
C2_Original ==
    pc # "start" =>
        /\ file_info.insertions = CountType(file_info.diff_content, "add")
        /\ file_info.deletions = CountType(file_info.diff_content, "delete")

\* C2 amended: insertions and deletions count the 'add' and 'delete' records
\* extracted before truncation; they are the counts of the returned
\* diff_content whenever no truncation was applied.
C2_CountsOfExtracted ==
    pc # "start" =>
        /\ file_info.insertions = CountType(line_changes, "add")
        /\ file_info.deletions = CountType(line_changes, "delete")
        /\ Len(line_changes) <= 100 =>
              /\ file_info.insertions = CountType(file_info.diff_content, "add")
              /\ file_info.deletions = CountType(file_info.diff_content, "delete")

C2_Witness ==
    /\ pc = "processed"
    /\ Len(line_changes) > 100
    /\ file_info.insertions > CountType(file_info.diff_content, "add")
    /\ file_info.deletions > CountType(file_info.diff_content, "delete")

\* C3 as stated: the retained diff_content has at most 100 records.
C3_Original == pc # "start" => Len(file_info.diff_content) <= 100

\* C3 amended: the retained diff_content has at most 101 records, at most
\* 100 of them records of the diff and at most one the 'truncated' marker;
\* this is what the aligner receives.
C3_AtMost101 ==
    pc # "start" =>
        /\ Len(file_info.diff_content) <= 101
        /\ CountType(file_info.diff_content, "truncated") <= 1
        /\ Len(file_info.diff_content)
             - CountType(file_info.diff_content, "truncated") <= 100

C3_Witness ==
    /\ pc \in AlignPcs
    /\ i > 0
    /\ Len(file_info.diff_content) = 101

\* the number a marker text '... N lines truncated ...' states
StatedCount(content) == StrToInt(SubSeq(content, 5, DigitRunEnd(content, 5) - 1))

MarkerWords ==
    <<" ", "l", "i", "n", "e", "s", " ",
      "t", "r", "u", "n", "c", "a", "t", "e", "d", " ", ".", ".", ".">>

\* C4: for N > 100 extracted records the result is the first 50 of them, one
\* 'truncated' record stating N - 100, then the last 50 of them.
C4_HeadMarkerTail ==
    (pc # "start" /\ Len(line_changes) > 100) =>
        LET N == Len(line_changes)
            dc == file_info.diff_content
        IN  /\ Len(dc) = 101
            /\ SubSeq(dc, 1, 50) = SubSeq(line_changes, 1, 50)
            /\ SubSeq(dc, 52, 101) = SubSeq(line_changes, N - 49, N)
            /\ dc[51].type = "truncated"
            /\ CountType(dc, "truncated") = 1
            /\ SubSeq(dc[51].content, 1, 4) = <<".", ".", ".", " ">>
            /\ StatedCount(dc[51].content) = N - 100
            /\ SubSeq(dc[51].content, DigitRunEnd(dc[51].content, 5),
                      Len(dc[51].content)) = MarkerWords

C4_Witness ==
    /\ pc = "processed"
    /\ Len(line_changes) = 102
    /\ file_info.diff_content[51].type = "truncated"
    /\ HasType(line_changes, "add")
    /\ HasType(line_changes, "hunk")

\* C5: an extracted sequence of at most 100 records (100 and 0 included) is
\* retained unchanged, with no 'truncated' record in it.
C5_ShortUnchanged ==
    (pc # "start" /\ Len(line_changes) <= 100) =>
        /\ file_info.diff_content = line_changes
        /\ ~HasType(file_info.diff_content, "truncated")

C5_Witness ==
    /\ pc = "processed"
    /\ Len(line_changes) = 100
    /\ file_info.diff_content = line_changes

\* the length of the maximal run of records of type t after the first k
RunLen(records, k, t) ==
    CHOOSE n \in 0..(Len(records) - k) :
        /\ \A m \in 1..n : records[k + m].type = t
        /\ k + n = Len(records) \/ records[k + n + 1].type # t

\* C6: an aligner iteration that starts at a 'delete' record starts a maximal
\* delete run of d records followed by a maximal add run of a records; it
\* appends exactly max(d, a) rows, row j holding the j-th delete (else an
\* empty cell) on the left and the j-th add (else an empty cell) on the
\* right, and leaves the index at the record after the add run.
C6_DeleteAddPairing ==
    [][ ( /\ pc \in AlignPcs
          /\ pc' = pc
          /\ i < Len(file_info.diff_content)
          /\ file_info.diff_content[i + 1].type = "delete" )
        => LET dc == file_info.diff_content
               d == RunLen(dc, i, "delete")
               a == RunLen(dc, i + d, "add")
               n == IF d >= a THEN d ELSE a
               lb == Len(left_lines)
               rb == Len(right_lines)
           IN  /\ i = 0 \/ dc[i].type # "delete"
               /\ Len(left_lines') = lb + n
               /\ Len(right_lines') = rb + n
               /\ SubSeq(left_lines', 1, lb) = left_lines
               /\ SubSeq(right_lines', 1, rb) = right_lines
               /\ \A j \in 0..(n - 1) :
                     /\ left_lines'[lb + j + 1] =
                            IF j < d THEN dc[i + j + 1] ELSE EmptyCell
                     /\ right_lines'[rb + j + 1] =
                            IF j < a THEN dc[i + d + j + 1] ELSE EmptyCell
               /\ i' = i + d + a ]_vars

C6_Witness ==
    /\ pc \in AlignPcs
    /\ Len(file_info.diff_content) = 4
    /\ SubSeq(TypesOf(file_info.diff_content), 1, 3) = <<"delete", "delete", "add">>
    /\ i = 3
    /\ TypesOf(left_lines) = <<"delete", "delete">>
    /\ TypesOf(right_lines) = <<"add", "empty">>

IsHunk(r) == r.type = "hunk"

\* C7: a row has a hunk cell on one side only if it has the same hunk cell
\* on the other, and the hunk rows of the returned sequences are the hunk
\* records of the input, in order.
C7_HunkBothSides ==
    /\ \A r \in 1..Min(Len(left_lines), Len(right_lines)) :
          (left_lines[r].type = "hunk" \/ right_lines[r].type = "hunk")
              => left_lines[r] = right_lines[r]
    /\ pc \in AlignedPcs =>
          /\ SelectSeq(left_lines, IsHunk) = SelectSeq(file_info.diff_content, IsHunk)
          /\ SelectSeq(right_lines, IsHunk) = SelectSeq(file_info.diff_content, IsHunk)

C7_Witness ==
    /\ pc \in AlignedPcs
    /\ Len(file_info.diff_content) = 4
    /\ TypesOf(file_info.diff_content) = <<"hunk", "delete", "hunk", "add">>
    /\ file_info.diff_content[1] # file_info.diff_content[3]
    /\ left_lines[3] = file_info.diff_content[3]
    /\ right_lines[3] = file_info.diff_content[3]

\* C8 as stated: the iteration that reads a 'truncated' record appends one
\* row whose two cells are that record, kind 'truncated', in both aligners.
C8_Original ==
    ( /\ pc \in AlignPcs
      /\ i > 0
      /\ file_info.diff_content[i].type = "truncated" )
    => /\ left_lines[Len(left_lines)] = file_info.diff_content[i]
       /\ right_lines[Len(right_lines)] = file_info.diff_content[i]

\* C9 as stated: a render step leaves a side's counter alone and shows no
\* number for a hunk, truncated or empty cell; a counter moves only for a
\* context/delete cell (left) or a context/add cell (right).
C9_Original ==
    [][ (pc \in RenderPcs /\ row' = row + 1)
        => LET l == CellAt(left_lines, row)
               r == CellAt(right_lines, row)
               shown == out'[Len(out')]
           IN  /\ l.type \in {"hunk", "truncated", "empty"} =>
                     /\ left_line_num' = left_line_num
                     /\ shown.left_no.kind # "num"
               /\ r.type \in {"hunk", "truncated", "empty"} =>
                     /\ right_line_num' = right_line_num
                     /\ shown.right_no.kind # "num"
               /\ left_line_num' # left_line_num => l.type \in {"context", "delete"}
               /\ right_line_num' # right_line_num => r.type \in {"context", "add"}
      ]_vars

IsNum(c) == c.kind = "num"

ShownLeft == SelectSeq([k \in 1..Len(out) |-> out[k].left_no], IsNum)

ShownRight == SelectSeq([k \in 1..Len(out) |-> out[k].right_no], IsNum)

StepsByOne(shown) == \A k \in 1..(Len(shown) - 1) : shown[k + 1].n = shown[k].n + 1

\* C10 as stated: the numbers shown on the left of one file's rows go up by
\* exactly 1 from one to the next, and so do those on the right, in both
\* renderers.
C10_Original == StepsByOne(ShownLeft) /\ StepsByOne(ShownRight)

\* the first hunk record of a sequence, as a sequence of at most one record
FirstHunk(records) ==
    LET hunks == SelectSeq(records, IsHunk)
    IN  IF hunks = <<>> THEN <<>> ELSE <<hunks[1]>>

\* the old and new start a header text states, for the headers of the inputs
HeaderStarts(content) ==
    IF StartsWith(content, HunkOk) THEN <<5, 7>>
    ELSE IF StartsWith(content, HunkCounts) THEN <<12, 9>>
    ELSE IF StartsWith(content, HunkZero) THEN <<0, 1>>
    ELSE <<>>

\* C11 as stated: when the file's first hunk record matches the header
\* pattern, the first number shown on the left is oldStart and the first
\* number shown on the right is newStart, in both renderers.
C11_Original ==
    LET h == FirstHunk(file_info.diff_content)
    IN  (pc \in AlignedPcs /\ h # <<>> /\ HeaderStarts(h[1].content) # <<>>) =>
            /\ ShownLeft # <<>> => ShownLeft[1].n = HeaderStarts(h[1].content)[1]
            /\ ShownRight # <<>> => ShownRight[1].n = HeaderStarts(h[1].content)[2]

\* C12: when the file has no hunk record, or its first hunk record does not
\* match the header pattern (whatever follows it), both counters are 1 when
\* the first row is rendered, and the HTML renderer emits every row.
C12_DefaultStartsAtOne ==
    LET h == FirstHunk(file_info.diff_content)
    IN  (h = <<>> \/ HeaderStarts(h[1].content) = <<>>) =>
            /\ (pc \in RenderPcs /\ row = 0) =>
                  /\ left_line_num = 1
                  /\ right_line_num = 1
            /\ pc = "html_done" => Len(out) = Len(left_lines)
            /\ pc = "viz_done" => (out = <<>> <=> left_lines = <<>>)

C12_Witness ==
    /\ pc = "html_done"
    /\ Len(file_info.diff_content) = 3
    /\ file_info.diff_content[1] = [type |-> "hunk", content |-> HunkBad]
    /\ file_info.diff_content[2] = [type |-> "hunk", content |-> HunkOk]
    /\ file_info.diff_content[3].type = "context"
    /\ out[3].left_no = Num(1)
    /\ out[3].right_no = Num(1)

\* the physical lines of the raw diff
DiffLines == IF diff = <<>> THEN <<>> ELSE Split(Decode(diff))

\* line k is a file-header marker: it starts with three signs and no hunk
\* header line precedes it
IsFileHeader(lines, k, sign) ==
    /\ StartsWith(lines[k], <<sign, sign, sign>>)
    /\ \A m \in 1..(k - 1) : ~StartsWith(lines[m], <<"@", "@">>)

\* the lines starting with sign that are no file-header marker, each without
\* its first character
ChangedTexts(lines, sign) ==
    LET kept == SelectSeq([k \in 1..Len(lines) |-> k],
                          LAMBDA k : StartsWith(lines[k], <<sign>>)
                                     /\ ~IsFileHeader(lines, k, sign))
    IN  [m \in 1..Len(kept) |-> SubSeq(lines[kept[m]], 2, Len(lines[kept[m]]))]

ContentsOfType(records, t) ==
    LET sel == SelectSeq(records, LAMBDA r : r.type = t)
    IN  [m \in 1..Len(sel) |-> sel[m].content]

\* C13 as stated: every physical line starting with '+' (with '-') that is
\* not a file-header marker becomes an add (a delete) record holding the line
\* without its first character, and is counted; a changed line whose own
\* text begins with '++' or '--' is among them.
C13_Original ==
    pc # "start" =>
        LET lines == DiffLines
            added == ChangedTexts(lines, "+")
            deleted == ChangedTexts(lines, "-")
        IN  /\ ContentsOfType(line_changes, "add") = added
            /\ ContentsOfType(line_changes, "delete") = deleted
            /\ file_info.insertions = Len(added)
            /\ file_info.deletions = Len(deleted)

\* C14: when _process_diff returns, the extracted list holds only add, delete
\* and hunk records; its hunk records are the lines starting with '@@', whole
\* and in order; a line that is none of the three adds no record; and the two
\* counts are the numbers of add and delete records, so no other line changes
\* them.
C14_OnlyAddDeleteHunk ==
    pc = "processed" =>
        LET lines == DiffLines
        IN  /\ \A k \in 1..Len(line_changes) :
                  line_changes[k].type \in {"add", "delete", "hunk"}
            /\ ContentsOfType(line_changes, "hunk")
                  = SelectSeq(lines, LAMBDA l : StartsWith(l, <<"@", "@">>))
            /\ Len(line_changes)
                  = Cardinality({k \in 1..Len(lines) :
                                    \/ IsAddLine(lines[k])
                                    \/ IsDeleteLine(lines[k])
                                    \/ IsHunkLine(lines[k])})
            /\ file_info.insertions = CountType(line_changes, "add")
            /\ file_info.deletions = CountType(line_changes, "delete")

C14_Witness ==
    /\ pc = "processed"
    /\ Len(diff) < 40
    /\ Len(DiffLines) = 3
    /\ StartsWith(DiffLines[1], <<"-", "-", "-", " ">>)
    /\ StartsWith(DiffLines[2], <<"@", "@">>)
    /\ StartsWith(DiffLines[3], <<" ">>)
    /\ TypesOf(line_changes) = <<"hunk">>
    /\ line_changes[1].content = DiffLines[2]
    /\ file_info.insertions = 0
    /\ file_info.deletions = 0

\* C15: an aligner iteration that starts at an 'add' record (an add that no
\* preceding delete run consumed) appends exactly one row, an empty cell on
\* the left and the add record on the right, and moves to the next record;
\* the row is never changed afterwards, so a delete that follows gets a row
\* of its own.
C15_StandaloneAdd ==
    /\ [][ ( /\ pc \in AlignPcs
             /\ pc' = pc
             /\ i < Len(file_info.diff_content)
             /\ file_info.diff_content[i + 1].type = "add" )
           => LET dc == file_info.diff_content
              IN  /\ i = 0 \/ dc[i].type # "delete"
                  /\ left_lines' = Append(left_lines, EmptyCell)
                  /\ right_lines' = Append(right_lines, dc[i + 1])
                  /\ i' = i + 1 ]_vars
    /\ [][ (pc \in AlignPcs /\ pc' = pc)
            => /\ SubSeq(left_lines', 1, Len(left_lines)) = left_lines
               /\ SubSeq(right_lines', 1, Len(right_lines)) = right_lines ]_vars

C15_Witness ==
    /\ pc \in AlignedPcs
    /\ TypesOf(file_info.diff_content) = <<"add", "delete">>
    /\ TypesOf(left_lines) = <<"empty", "delete">>
    /\ TypesOf(right_lines) = <<"add", "empty">>
    /\ right_lines[1] = file_info.diff_content[1]

NonEmptyCells(cells) == SelectSeq(cells, LAMBDA c : c.type # "empty")

Without(records, t) == SelectSeq(records, LAMBDA r : r.type # t)

C17_AdvancesAndTerminates ==
    /\ [][ (pc \in AlignPcs /\ pc' = pc)
           => /\ i' > i
              /\ i' <= Len(file_info.diff_content) ]_vars
    /\ [](pc \in AlignedPcs
             => /\ i = Len(file_info.diff_content)
                /\ Len(left_lines) = Len(right_lines))
    /\ (pc \in AlignPcs) ~> (pc \in AlignedPcs)

C17_Witness ==
    /\ pc \in AlignedPcs
    /\ TypesOf(file_info.diff_content) = <<"add", "delete">>
    /\ i = 2
    /\ TypesOf(left_lines) = <<"empty", "delete">>
    /\ TypesOf(right_lines) = <<"add", "empty">>

\* C18: an empty raw diff gives a file entry with no records, insertions 0
\* and deletions 0; the aligners turn the empty record sequence into no rows,
\* and the renderers then emit none.
C18_EmptyDiffEmptyResult ==
    diff = <<>> =>
        /\ pc # "start" =>
              /\ file_info.insertions = 0
              /\ file_info.deletions = 0
              /\ file_info.diff_content = <<>>
        /\ left_lines = <<>>
        /\ right_lines = <<>>
        /\ out = <<>>
        /\ i = 0

C18_Witness ==
    /\ diff = <<>>
    /\ pc \in {"html_done", "viz_done"}
    /\ file_info.diff_content = <<>>
    /\ out = <<>>

HasBadByte(bytes) == \E k \in 1..Len(bytes) : bytes[k] = BadByte

\* C19 as stated: each invalid byte of the raw diff appears in the extracted
\* records as a replacement character.
C19_Original ==
    (pc = "processed" /\ HasBadByte(diff)) =>
        line_changes = Extract(Split(DecodeReplace(diff))).recs

\* C19 amended: when _process_diff returns for a raw diff holding invalid
\* bytes, it has not failed and has kept the file; each invalid byte is
\* removed from the decoded text, so the result is that of the same diff
\* without its invalid bytes, and no record content holds an invalid byte or
\* a replacement character.
C19_InvalidBytesRemoved ==
    (pc = "processed" /\ HasBadByte(diff)) =>
        LET valid == SelectSeq(diff, LAMBDA b : b # BadByte)
        IN  /\ file_info = process_diff(valid)
            /\ line_changes = ExtractedChanges(valid)
            /\ \A k \in 1..Len(line_changes) :
                  \A c \in 1..Len(line_changes[k].content) :
                      line_changes[k].content[c] \notin {BadByte, ReplacementChar}

C19_Witness ==
    /\ pc = "processed"
    /\ Len(diff) < 40
    /\ HasBadByte(diff)
    /\ file_info.insertions = 1
    /\ \E k \in 1..Len(line_changes) :
          /\ line_changes[k].type = "add"
          /\ Len(line_changes[k].content) = 1
          /\ \E m \in 1..Len(DiffLines) :
                DiffLines[m] = <<"+">> \o line_changes[k].content

\* C20 as stated: every line number a renderer shows in a cell is at least
\* 1, also when the first hunk header has a zero start.
C20_Original ==
    \A k \in 1..Len(out) :
        /\ IsNum(out[k].left_no) => out[k].left_no.n >= 1
        /\ IsNum(out[k].right_no) => out[k].right_no.n >= 1

\* C21: an aligner iteration that starts at a context record (none of hunk,
\* delete, add, truncated) appends exactly one row, a context cell with the
\* record's content on the left and on the right, and moves to the next
\* record.
C21_ContextBothSides ==
    [][ ( /\ pc \in AlignPcs
          /\ pc' = pc
          /\ i < Len(file_info.diff_content)
          /\ file_info.diff_content[i + 1].type
                \notin {"hunk", "delete", "add", "truncated"} )
        => LET cell == [type |-> "context",
                        content |-> file_info.diff_content[i + 1].content]
           IN  /\ left_lines' = Append(left_lines, cell)
               /\ right_lines' = Append(right_lines, cell)
               /\ i' = i + 1 ]_vars

C21_Witness ==
    /\ pc \in AlignedPcs
    /\ TypesOf(file_info.diff_content) = <<"delete", "context", "add">>
    /\ TypesOf(left_lines) = <<"delete", "context", "empty">>
    /\ TypesOf(right_lines) = <<"empty", "context", "add">>
    /\ left_lines[2].content = file_info.diff_content[2].content
    /\ right_lines[2] = left_lines[2]

\* the commits of the first n of a list that succeed, as main records them
SucceededOf(commits, n) ==
    LET ok == SelectSeq([k \in 1..n |-> k], LAMBDA k : commits[k].outcome = "ok")
    IN  [m \in 1..Len(ok) |-> ProcessedCommit(commits[ok[m]], ok[m])]

\* C22 as stated: whatever fails, main ends with every commit attempted and
\* the document generated exactly once, from exactly the commits that
\* succeeded, in list order.
C22_Original ==
    cli_pc \notin {"off", "loop"} =>
        /\ idx = Len(commit_list)
        /\ documents = <<SucceededOf(commit_list, Len(commit_list))>>

\* C22 amended: without --verbose, main attempts every commit, then generates
\* the document exactly once, from exactly the commits that succeeded, in
\* list order; with --verbose the first failure is re-raised, the commits
\* after it are not attempted and no document is generated.
C22_UnlessVerbose ==
    /\ []( /\ Len(documents) <= 1
           /\ processed_commits = SucceededOf(commit_list, idx)
           /\ cli_pc = "done" =>
                 /\ idx = Len(commit_list)
                 /\ documents = <<SucceededOf(commit_list, Len(commit_list))>>
           /\ cli_pc = "loop" => documents = <<>>
           /\ cli_pc = "exit 1" =>
                 /\ verbose
                 /\ documents = <<>>
                 /\ idx < Len(commit_list)
                 /\ commit_list[idx + 1].outcome # "ok" )
    /\ (cli_pc = "loop" /\ ~verbose) ~> (cli_pc = "done")
    /\ (cli_pc = "loop" /\ verbose
            /\ \E k \in 1..Len(commit_list) : commit_list[k].outcome # "ok")
          ~> (cli_pc = "exit 1")

C22_Witness ==
    /\ cli_pc = "done"
    /\ ~verbose
    /\ Len(commit_list) = 3
    /\ commit_list[1].outcome = "ok"
    /\ commit_list[2].outcome # "ok"
    /\ commit_list[3].outcome = "ok"
    /\ documents = << <<ProcessedCommit(commit_list[1], 1),
                        ProcessedCommit(commit_list[3], 3)>> >>

\* C23: no step of an aligner or of a numbering pass changes the file's
\* diff_content (or anything else of file_info), and a second alignment of
\* it returns what the first returned: the lists the visualizer draws are
\* those its sizing pass measured, and the lists a renderer holds are what
\* one more call of its aligner returns.
C23_DiffContentUnchanged ==
    /\ [][pc # "start" => file_info' = file_info]_vars
    /\ [](pc \in {"viz_render", "viz_done"} =>
             /\ total_diff_lines = Max(Len(left_lines), Len(right_lines))
             /\ <<left_lines, right_lines>>
                    = viz_prepare_side_by_side_diff(file_info.diff_content))
    /\ [](pc \in {"html_render", "html_done"} =>
             <<left_lines, right_lines>>
                 = html_prepare_side_by_side_diff(file_info.diff_content))

C23_Witness ==
    /\ pc = "viz_done"
    /\ TypesOf(file_info.diff_content) = <<"hunk", "delete", "add", "truncated">>
    /\ total_diff_lines = 3
    /\ Len(left_lines) = 3
    /\ Len(out) = 3

\* C24 as stated: the truncation rule applied to the result of truncating
\* more than 100 records returns that result unchanged.
C24_Original ==
    (pc = "processed" /\ Len(line_changes) > 100) =>
        Truncate(file_info.diff_content) = file_info.diff_content

\* C24 amended: the rule returns a result of at most 100 records unchanged;
\* the result of truncating N > 100 records has 101 records, so a second
\* application truncates again: it keeps the 50 records before and the 50
\* after the marker and replaces the marker by one that states 1, which is
\* the same result only when N = 101.
C24_SecondTruncation ==
    pc = "processed" =>
        LET once == file_info.diff_content
            twice == Truncate(once)
            n == Len(line_changes)
        IN  /\ n <= 100 => twice = once
            /\ n > 100 =>
                  /\ Len(once) = 101
                  /\ Len(twice) = 101
                  /\ once[51] = TruncatedMarker(n - 100)
                  /\ twice[51] = TruncatedMarker(1)
                  /\ \A k \in (1..101) \ {51} : twice[k] = once[k]
                  /\ twice = once <=> n = 101

C24_Witness ==
    /\ pc = "processed"
    /\ Len(line_changes) = 102
    /\ file_info.diff_content[51] = TruncatedMarker(2)
    /\ Truncate(file_info.diff_content)[51] = TruncatedMarker(1)

\* C25: on a record sequence of hunk, add, delete and context records the
\* two aligners return the same pair of cell sequences: what either renderer
\* holds after aligning is what the other renderer's aligner returns.
C25_AlignersAgree ==
    ~HasType(file_info.diff_content, "truncated") =>
        /\ pc \in {"html_render", "html_done"} =>
              <<left_lines, right_lines>>
                  = viz_prepare_side_by_side_diff(file_info.diff_content)
        /\ pc \in {"viz_render", "viz_done"} =>
              <<left_lines, right_lines>>
                  = html_prepare_side_by_side_diff(file_info.diff_content)

C25_Witness ==
    /\ pc = "html_done"
    /\ TypesOf(file_info.diff_content) = <<"delete", "add", "context", "hunk">>
    /\ Len(left_lines) = 3
    /\ <<left_lines, right_lines>>
           = viz_prepare_side_by_side_diff(file_info.diff_content)

\* the rows saved by pairing: over every maximal delete run (starting after
\* the first k records) that an add run follows, the smaller of the two
\* run lengths
RECURSIVE PairedRows(_, _)
PairedRows(records, k) ==
    IF k >= Len(records) THEN 0
    ELSE LET startsRun == /\ records[k + 1].type = "delete"
                          /\ k = 0 \/ records[k].type # "delete"
             d == RunLen(records, k, "delete")
             a == RunLen(records, k + d, "add")
         IN  (IF startsRun THEN (IF d <= a THEN d ELSE a) ELSE 0)
             + PairedRows(records, k + 1)

\* C26: the number of aligned rows is the number of input records minus the
\* rows saved by pairing; it is at most the number of input records and at
\* least the number of records that are no adds and the number that are no
\* deletes (both aligners, every record sequence).
C26_RowCount ==
    pc \in AlignedPcs =>
        LET dc == file_info.diff_content
            rows == Len(left_lines)
        IN  /\ Len(right_lines) = rows
            /\ rows = Len(dc) - PairedRows(dc, 0)
            /\ rows <= Len(dc)
            /\ rows >= Len(dc) - CountType(dc, "add")
            /\ rows >= Len(dc) - CountType(dc, "delete")

C26_Witness ==
    /\ pc \in AlignedPcs
    /\ TypesOf(file_info.diff_content) = <<"delete", "delete", "add", "add">>
    /\ PairedRows(file_info.diff_content, 0) = 2
    /\ Len(left_lines) = 2
    /\ Len(right_lines) = 2

\* the positions in diffs of the diffs that are not excluded by a pattern,
\* are text files and whose _process_diff does not fail, in diff order
Eligible(ds) ==
    SelectSeq([k \in 1..Len(ds) |-> k],
              LAMBDA k : /\ ~should_skip_file(ds[k].path)
                         /\ is_text_file(ds[k].path)
                         /\ ~ds[k].broken)

RECURSIVE SumOf(_, _)
SumOf(files, field) ==
    IF files = <<>> THEN 0
    ELSE files[1][field] + SumOf(Tail(files), field)

\* C27: what process_commit returns holds at most max_files file entries,
\* those of the first max_files eligible diffs in diff order (excluded,
\* non-text and failed diffs not counting toward the limit);
\* stats.files_changed is their number and stats.insertions and
\* stats.deletions are the sums of their insertions and deletions.
C27_FirstMaxFilesEligible ==
    commit_pc = "returned" =>
        LET files == commit_info.files
            stats == commit_info.stats
            eligible == Eligible(diffs)
            taken == IF Len(eligible) <= max_files THEN Len(eligible)
                     ELSE max_files
        IN  /\ Len(files) <= max_files
            /\ Len(files) = taken
            /\ \A m \in 1..taken :
                  /\ files[m].path = diffs[eligible[m]].path
                  /\ files[m] = FileEntry(diffs[eligible[m]])
            /\ stats.files_changed = Len(files)
            /\ stats.insertions = SumOf(files, "insertions")
            /\ stats.deletions = SumOf(files, "deletions")

C27_Witness ==
    /\ commit_pc = "returned"
    /\ max_files = 1
    /\ Len(diffs) = 3
    /\ diffs[1].broken
    /\ ~diffs[2].broken /\ should_skip_file(diffs[2].path)
    /\ Eligible(diffs) = <<3>>
    /\ Len(commit_info.files) = 1
    /\ commit_info.files[1].path = diffs[3].path
    /\ commit_info.stats = [files_changed |-> 1, insertions |-> 2, deletions |-> 1]

====
